---------------------------- MODULE Spec2Model ----------------------------
(***************************************************************************)
(* A model of resumodel: the YAML loader (load_shared_data,                *)
(* build_resume_context), the generator's LaTeX escaping filter and the    *)
(* command-line run (main).                                                *)
(*                                                                         *)
(* Parsed YAML documents, records and exceptions are modelled as records;  *)
(* Python dicts are modelled as sequences of entries with distinct keys,   *)
(* in insertion order; Python strings that are escaped are sequences of    *)
(* characters (a run of ordinary characters may be one element).           *)
(***************************************************************************)
EXTENDS Integers, Sequences, FiniteSets, TLC

VARIABLES
    pc,            \* where the modelled call or run stands
    text,          \* _latex_escape: the argument
    escaped,       \* _latex_escape: the returned string
    data_dir,      \* the data directory on disk: its path, does it exist, its YAML files
    profile_name,  \* the profile asked for
    shared,        \* the SharedData load_shared_data returned
    loadLocal,     \* load_shared_data's local `shared` when it returned or raised
    visited,       \* the data files the loop of load_shared_data came to, in order
    warned,        \* the files load_shared_data logged a warning about
    context,       \* the TemplateContext build_resume_context returned
    exc,           \* the exception the last call raised (NoExc: none)
    argv,          \* main: the command line
    fs,            \* main: personal_info.yml, the template and the output path on disk
    personal_info, \* the PersonalInfo load_personal_info, the instance load_yaml returned
    output,        \* main: the output file on disk
    stages,        \* main: the stages the run went through, in order, with their outcome
    exit_code,     \* main: the exit status of the run (<<>> while it runs)
    stderr,        \* main: the lines written to the error stream
    generator,     \* the ResumeGenerator constructed (NoGenerator: none)
    rendered,      \* generate: the text returned
    out_dir,       \* does the parent directory of the output path exist
    logger,        \* the 'resumodel' logger: its handlers and its level
    log_call       \* the last call of setup_logging: its number and arguments

vars == <<pc, text, escaped, data_dir, profile_name, shared, loadLocal, visited,
          warned, context, exc, argv, fs, personal_info, output, stages, exit_code,
          stderr, generator, rendered, out_dir, logger, log_call>>

\* The variables of main, which the calls modelled on their own leave alone.
cliVars == <<argv, fs, personal_info, output, stages, exit_code, stderr, generator,
             rendered, out_dir, logger, log_call>>

NoCommandLine == [given |-> {}, extra |-> "none", profile |-> ""]
NoFiles == [personal |-> "absent", template |-> "absent", out |-> "ok", parent |-> "missing"]

\* No ResumeGenerator; no text.
NoGenerator == [template |-> "none"]
NoText == [state |-> "none", of |-> ""]

\* logger = logging.getLogger("resumodel"), before any call of
\* setup_logging.
FreshLogger == [handlers |-> <<>>, level |-> "NOTSET"]
NoLogCall == [n |-> 0, level |-> "default", log_file |-> "None"]

\* No command-line run is modelled (the logger apart).
CliIdleButLogger ==
    /\ argv = NoCommandLine
    /\ fs = NoFiles
    /\ personal_info = ""
    /\ output = ""
    /\ stages = <<>>
    /\ exit_code = <<>>
    /\ stderr = <<>>
    /\ generator = NoGenerator
    /\ rendered = NoText
    /\ out_dir = "missing"

\* No command-line run is modelled, and setup_logging was not called.
CliIdle ==
    /\ CliIdleButLogger
    /\ logger = FreshLogger
    /\ log_call = NoLogCall

(***************************************************************************)
(* Generic helpers                                                         *)
(***************************************************************************)
\* All sequences over S of length at most n.
SeqsUpTo(S, n) == UNION {[1..k -> S] : k \in 0..n}

(***************************************************************************)
(* exceptions.py and the built-in exceptions the code lets through         *)
(***************************************************************************)
\* An exception: its class, the fixed part of its message and the names
\* (file, profile, ID) the message carries.
Exc(type, msg, names) == [type |-> type, msg |-> msg, names |-> names]

NoExc == Exc("none", "", <<>>)

\* ConfigError, DataError and TemplateError derive from ResuModelError.
ResuModelErrors == {"ConfigError", "DataError", "TemplateError"}

(***************************************************************************)
(* models.py                                                               *)
(***************************************************************************)
\* load_shared_data's data_files: file name, attribute name, record class,
\* in the order the dict literal lists them.
data_files ==
    << [file |-> "experiences.yml", attr |-> "experiences", cls |-> "Experience"],
       [file |-> "projects.yml", attr |-> "projects", cls |-> "Project"],
       [file |-> "education.yml", attr |-> "education", cls |-> "Education"],
       [file |-> "certifications.yml", attr |-> "certifications", cls |-> "Certification"],
       [file |-> "research_papers.yml", attr |-> "research_papers", cls |-> "ResearchPaper"],
       [file |-> "clubs_and_associations.yml", attr |-> "clubs_and_associations",
        cls |-> "ClubActivity"],
       [file |-> "hobbies.yml", attr |-> "hobbies", cls |-> "Hobby"],
       [file |-> "profiles.yml", attr |-> "profiles", cls |-> "Profile"] >>

FileNames == {data_files[i].file : i \in 1..Len(data_files)}

\* The fields of SharedData, each a dict from ID to record.
SharedFields ==
    {"experiences", "projects", "education", "certifications", "research_papers",
     "clubs_and_associations", "hobbies", "profiles"}

\* SharedData(): every mapping empty.
EmptyShared == [a \in SharedFields |-> <<>>]

\* The seven reference lists of a Profile, in the order build_resume_context
\* resolves them, and the record class ResumeSections declares for each.
Sections ==
    << [name |-> "experiences", cls |-> "Experience"],
       [name |-> "projects", cls |-> "Project"],
       [name |-> "education", cls |-> "Education"],
       [name |-> "certifications", cls |-> "Certification"],
       [name |-> "research_papers", cls |-> "ResearchPaper"],
       [name |-> "clubs_and_associations", cls |-> "ClubActivity"],
       [name |-> "hobbies", cls |-> "Hobby"] >>

SectionNames == {Sections[i].name : i \in 1..Len(Sections)}

\* Optional[list[SkillCategory]]: absent (None) or a list.
NoSkills == [present |-> FALSE, list |-> <<>>]

\* The Profile without skills or references.
NoProfile ==
    [title |-> "", summary |-> "", skills |-> NoSkills,
     refs |-> [s \in SectionNames |-> <<>>]]

(***************************************************************************)
(* Python dicts: sequences of [id, rec] entries with distinct ids          *)
(***************************************************************************)
HasKey(d, k) == \E i \in 1..Len(d) : d[i].id = k

\* d[k], for a key d holds.
Get(d, k) == d[CHOOSE i \in 1..Len(d) : d[i].id = k].rec

(***************************************************************************)
(* loader.py: load_shared_data                                             *)
(***************************************************************************)
\* model_class.model_validate(item_data): the record of class cls built
\* from a valid item; a Profile carries the fields of the profile.
ModelValidate(cls, item) ==
    IF cls = "Profile"
    THEN [cls |-> cls, tag |-> item.tag, profile |-> item.profile]
    ELSE [cls |-> cls, tag |-> item.tag]

\* ValidateItems leaving out the items that fail validation.
ValidateItems_SkipInvalid(cls, entries) ==
    LET good == SelectSeq(entries, LAMBDA e : e.valid)
    IN  [ok |-> TRUE,
         items |-> [i \in 1..Len(good) |->
                      [id |-> good[i].id, rec |-> ModelValidate(cls, good[i])]]]

\* The dict comprehension over value.items(): every item validated, in
\* order; a ValidationError of any item leaves no dict at all.
ValidateItems(cls, entries) ==
    IF \E i \in 1..Len(entries) : ~entries[i].valid
    THEN [ok |-> FALSE, items |-> <<>>]
    ELSE [ok |-> TRUE,
          items |-> [i \in 1..Len(entries) |->
                        [id |-> entries[i].id, rec |-> ModelValidate(cls, entries[i])]]]

\* The attribute `setattr(shared, key, validated_items)` assigns: the
\* top-level key read from the file.
TargetAttr(f, key) == key

\* The loop over data.items() of one file, from its k-th top-level key on:
\* a value that is falsy or no dict is passed over; a dict is validated
\* whole and then stored under the key.  pydantic's __setattr__ raises
\* ValueError for a name that is no field of SharedData.
RECURSIVE ProcessItems(_, _, _, _)
ProcessItems(f, items, k, sh) ==
    IF k > Len(items) THEN [exc |-> NoExc, shared |-> sh]
    ELSE LET it == items[k]
             v == ValidateItems(f.cls, it.entries)
             attr == TargetAttr(f, it.key)
         IN  IF it.vkind # "dict" THEN ProcessItems(f, items, k + 1, sh)
             ELSE IF ~v.ok
             THEN [exc |-> Exc("DataError", "Validation failed for", <<f.file>>),
                   shared |-> sh]
             ELSE IF attr \notin SharedFields
             THEN [exc |-> Exc("ValueError", "object has no field", <<attr>>),
                   shared |-> sh]
             ELSE ProcessItems(f, items, k + 1, [sh EXCEPT ![attr] = v.items])

\* FileDisposition with the yaml.YAMLError not caught.
FileDisposition_YamlErrorEscapes(doc) ==
    CASE doc.kind = "absent" -> "absent"
      [] doc.kind \in {"unreadable", "badyaml"} -> "oserror"
      [] doc.kind \in {"null", "list"} -> "warn"
      [] doc.kind = "dict" -> "items"

\* What the loop body does with a file, by what the file is: "absent"
\* (skipped, debug log), "warn" (yaml.YAMLError, or a document that is no
\* dict, the empty file's None included: a warning, then the next file),
\* "oserror" (open() or the read fails: not caught), "items" (a dict).
FileDisposition(doc) ==
    CASE doc.kind = "absent" -> "absent"
      [] doc.kind = "unreadable" -> "oserror"
      [] doc.kind \in {"badyaml", "null", "list"} -> "warn"
      [] doc.kind = "dict" -> "items"

\* One iteration of `for filename, (attr_name, model_class) in data_files.items()`.
FileStep(f, doc, sh) ==
    LET d == FileDisposition(doc) IN
    CASE d = "absent" -> [exc |-> NoExc, shared |-> sh, warn |-> FALSE]
      [] d = "warn"   -> [exc |-> NoExc, shared |-> sh, warn |-> TRUE]
      [] d = "oserror" ->
            [exc |-> Exc("OSError", "cannot read", <<f.file>>), shared |-> sh,
             warn |-> FALSE]
      [] d = "items"  ->
            LET r == ProcessItems(f, doc.items, 1, sh)
            IN  [exc |-> r.exc, shared |-> r.shared, warn |-> FALSE]

\* The loop of load_shared_data over the files `order` lists (indices into
\* data_files), from position i on.
RECURSIVE LoadFrom(_, _, _, _, _, _)
LoadFrom(files, order, i, sh, vis, wrn) ==
    IF i > Len(order)
    THEN [exc |-> NoExc, shared |-> sh, visited |-> vis, warned |-> wrn]
    ELSE LET f == data_files[order[i]]
             r == FileStep(f, files[f.file], sh)
             vis2 == Append(vis, f.file)
             wrn2 == IF r.warn THEN wrn \cup {f.file} ELSE wrn
         IN  IF r.exc # NoExc
             THEN [exc |-> r.exc, shared |-> r.shared, visited |-> vis2, warned |-> wrn2]
             ELSE LoadFrom(files, order, i + 1, r.shared, vis2, wrn2)

\* The order in which the code comes to the files: that of data_files.
CodeOrder == [i \in 1..Len(data_files) |-> i]

\* load_shared_data(data_dir), processing the files in the given order.
LoadSharedDataIn(dir, order) ==
    IF ~dir.exists
    THEN [exc |-> Exc("ConfigError", "Data directory not found", <<"data_dir">>),
          shared |-> EmptyShared, visited |-> <<>>, warned |-> {}]
    ELSE LoadFrom(dir.files, order, 1, EmptyShared, <<>>, {})

LoadSharedData(dir) == LoadSharedDataIn(dir, CodeOrder)

(***************************************************************************)
(* loader.py: build_resume_context                                         *)
(***************************************************************************)
\* A valid PersonalInfo instance.
ValidPersonalInfo == "PersonalInfo"

\* FindProfile with a default in place of the check: an unknown name gets
\* the profile without references.
FindProfile_Default(sh, name) ==
    IF HasKey(sh.profiles, name)
    THEN [found |-> TRUE, rec |-> Get(sh.profiles, name)]
    ELSE [found |-> TRUE, rec |-> [cls |-> "Profile", tag |-> <<>>, profile |-> NoProfile]]

\* shared.profiles.get(profile_name), and `if not profile` (a model
\* instance is truthy).
FindProfile(sh, name) ==
    IF HasKey(sh.profiles, name)
    THEN [found |-> TRUE, rec |-> Get(sh.profiles, name)]
    ELSE [found |-> FALSE, rec |-> [cls |-> "Profile", tag |-> <<>>, profile |-> NoProfile]]

\* ResolveSection passing over the IDs the mapping lacks (mapping.get and a
\* filter in place of mapping[ref_id]).
RECURSIVE ResolveSection_SkipMissing(_, _)
ResolveSection_SkipMissing(mapping, ids) ==
    IF ids = <<>> THEN [missing |-> FALSE, id |-> "", recs |-> <<>>]
    ELSE LET rest == ResolveSection_SkipMissing(mapping, Tail(ids))
         IN  [missing |-> FALSE, id |-> "",
              recs |-> (IF HasKey(mapping, Head(ids))
                        THEN <<Get(mapping, Head(ids))>> ELSE <<>>) \o rest.recs]

\* [mapping[ref_id] for ref_id in ids]: the records in list order, or the
\* first ID that raises KeyError.
RECURSIVE ResolveSection(_, _)
ResolveSection(mapping, ids) ==
    IF ids = <<>> THEN [missing |-> FALSE, id |-> "", recs |-> <<>>]
    ELSE IF ~HasKey(mapping, Head(ids))
    THEN [missing |-> TRUE, id |-> Head(ids), recs |-> <<>>]
    ELSE LET rest == ResolveSection(mapping, Tail(ids))
         IN  IF rest.missing THEN rest
             ELSE [missing |-> FALSE, id |-> "",
                   recs |-> <<Get(mapping, Head(ids))>> \o rest.recs]

\* The try block: the seven sections resolved in order, from the i-th on;
\* the first KeyError ends it.
RECURSIVE ResolveAll(_, _, _, _)
ResolveAll(sh, refs, i, done) ==
    IF i > Len(Sections) THEN [missing |-> FALSE, id |-> "", sections |-> done]
    ELSE LET s == Sections[i].name
             r == ResolveSection(sh[s], refs[s])
         IN  IF r.missing THEN [missing |-> TRUE, id |-> r.id, sections |-> done]
             ELSE ResolveAll(sh, refs, i + 1, [done EXCEPT ![s] = r.recs])

\* TemplateContext.model_validate(context): ResumeSections takes, in each
\* list, instances of the list's record class (kept as they are) and
\* rejects instances of another model.
ContextValidates(sections) ==
    \A i \in 1..Len(Sections) :
        \A j \in 1..Len(sections[Sections[i].name]) :
            sections[Sections[i].name][j].cls = Sections[i].cls

\* context["sections"]["skills"] is set `if profile.skills`: for a list
\* that is not empty.
SkillsOf(profile) ==
    IF profile.skills.present /\ profile.skills.list # <<>>
    THEN profile.skills
    ELSE NoSkills

NoContext ==
    [personal_info |-> "", title |-> "", summary |-> "", skills |-> NoSkills,
     sections |-> [s \in SectionNames |-> <<>>]]

\* build_resume_context(personal_info, profile_name, shared).
BuildResumeContext(pi, name, sh) ==
    LET p == FindProfile(sh, name)
        r == ResolveAll(sh, p.rec.profile.refs, 1, [s \in SectionNames |-> <<>>])
    IN  IF ~p.found
        THEN [exc |-> Exc("DataError", "Profile not found in shared data", <<name>>),
              context |-> NoContext]
        ELSE IF p.rec.cls # "Profile"
        THEN \* profile.title / profile.summary of a record that is no Profile
             [exc |-> Exc("AttributeError", "object has no attribute", <<name>>),
              context |-> NoContext]
        ELSE IF r.missing
        THEN [exc |-> Exc("DataError", "Missing reference in profile", <<name, r.id>>),
              context |-> NoContext]
        ELSE IF ~ContextValidates(r.sections)
        THEN [exc |-> Exc("DataError", "Failed to validate template context", <<>>),
              context |-> NoContext]
        ELSE [exc |-> NoExc,
              context |-> [personal_info |-> pi, title |-> p.rec.profile.title,
                           summary |-> p.rec.profile.summary,
                           skills |-> SkillsOf(p.rec.profile),
                           sections |-> r.sections]]

\* InputsAfterBuild with the records a call resolved taken out of the
\* mappings of the SharedData.
InputsAfterBuild_Consume(pi, sh, r) ==
    [personal_info |-> pi,
     shared |-> [a \in SharedFields |->
        IF a \in SectionNames
        THEN SelectSeq(sh[a], LAMBDA e :
                \A j \in 1..Len(r.context.sections[a]) : r.context.sections[a][j] # e.rec)
        ELSE sh[a]]]

\* The PersonalInfo and the SharedData given to build_resume_context, as
\* they are when it has returned the result r or raised: it assigns to
\* neither and calls nothing that does.
InputsAfterBuild(pi, sh, r) == [personal_info |-> pi, shared |-> sh]

(***************************************************************************)
(* The data directories and profiles the loader is run on                  *)
(***************************************************************************)
\* The most data files present in a directory.
MaxPresent == 2

\* The most IDs a profile references, over its seven lists.
MaxRefs == 2

\* At most this many calls of build_resume_context on one SharedData.
MaxBuilds == 2

IDs == {"A", "B"}

\* The profile names asked for: "A" may be a key of profiles.yml, "Q" never is.
ProfileNames == {"A", "Q"}

\* A top-level key of a file and its value: the key is the file's own
\* attribute name ("own"), the attribute name of the file listed before it
\* in data_files ("foreign": the first file takes the last one's) or no
\* field of SharedData ("unknown"); the value is falsy ("null"), truthy but
\* no dict ("list"), or a dict of the items `ids`, those in `bad` failing
\* the validation of the file's record class.
ItemShape(keysel, vkind, ids, bad) ==
    [keysel |-> keysel, vkind |-> vkind, ids |-> ids, bad |-> bad]

OwnItems ==
    { ItemShape("own", "null", <<>>, {}), ItemShape("own", "list", <<>>, {}),
      ItemShape("own", "dict", <<"A">>, {}), ItemShape("own", "dict", <<"A", "B">>, {}),
      ItemShape("own", "dict", <<"B", "A">>, {}), ItemShape("own", "dict", <<"A">>, {"A"}),
      ItemShape("own", "dict", <<"A", "B">>, {"B"}) }

OtherItems ==
    { ItemShape(k, "dict", <<"A">>, b) : k \in {"foreign", "unknown"}, b \in {{}, {"A"}} }

DocShape(kind, items) == [kind |-> kind, items |-> items]

\* What a present file may hold: text that is no YAML, nothing, a list, a
\* file that cannot be read, or a mapping of no, one or two top-level keys.
DocShapes ==
    { DocShape(k, <<>>) : k \in {"badyaml", "null", "list", "unreadable", "dict"} }
    \cup { DocShape("dict", <<it>>) : it \in OwnItems \cup OtherItems }
    \cup { DocShape("dict", <<a, b>>) :
             a \in { ItemShape("own", "null", <<>>, {}), ItemShape("own", "dict", <<"A">>, {}),
                     ItemShape("unknown", "dict", <<"A">>, {}) },
             b \in { ItemShape("foreign", "dict", <<"A">>, {}),
                     ItemShape("foreign", "dict", <<"A">>, {"A"}) } }

\* The shapes of the files that stand beside a file of any shape.
SimpleDocShapes ==
    { DocShape("badyaml", <<>>),
      DocShape("dict", <<ItemShape("own", "dict", <<"A">>, {})>>),
      DocShape("dict", <<ItemShape("foreign", "dict", <<"A">>, {})>>) }

\* The shapes of a record file that stands beside profiles.yml: one
\* top-level key that is a field of SharedData, all items valid.
ValidDocShapes ==
    { DocShape("dict", <<it>>) :
        it \in { s \in OwnItems \cup OtherItems :
                   s.vkind = "dict" /\ s.bad = {} /\ s.keysel # "unknown" } }

FileIndex(name) == CHOOSE i \in 1..Len(data_files) : data_files[i].file = name

ForeignAttr(i) == data_files[IF i = 1 THEN Len(data_files) ELSE i - 1].attr

KeyOf(i, keysel) ==
    CASE keysel = "own" -> data_files[i].attr
      [] keysel = "foreign" -> ForeignAttr(i)
      [] keysel = "unknown" -> "skills"

\* A profile with the given reference lists and skills.
ProfileOf(refs, skills) ==
    [title |-> "Title", summary |-> "Summary", skills |-> skills, refs |-> refs]

\* The reference lists a sequence of (section, ID) pairs spells out.
RefsOf(pairs) ==
    [s \in SectionNames |->
        LET mine == SelectSeq(pairs, LAMBDA p : p[1] = s)
        IN  [j \in 1..Len(mine) |-> mine[j][2]]]

SomeSkills == [present |-> TRUE, list |-> <<"SkillCategory">>]
EmptySkills == [present |-> TRUE, list |-> <<>>]

\* The profiles drawn: every choice of at most MaxRefs references, without
\* skills; and the profile without references, with each kind of skills.
Profiles ==
    { ProfileOf(RefsOf(pairs), NoSkills) : pairs \in SeqsUpTo(SectionNames \X IDs, MaxRefs) }
    \cup { ProfileOf(RefsOf(<<>>), sk) : sk \in {SomeSkills, EmptySkills} }

\* The raw item of a file: does it validate, where it comes from, and, in
\* profiles.yml, the profile it spells out.
RawItem(i, key, id, valid, profile) ==
    IF data_files[i].cls = "Profile"
    THEN [id |-> id, valid |-> valid, tag |-> <<data_files[i].file, key, id>>,
          profile |-> profile]
    ELSE [id |-> id, valid |-> valid, tag |-> <<data_files[i].file, key, id>>]

Absent == [kind |-> "absent", items |-> <<>>]

\* The parsed document of file i with the given shape; its items spell out
\* `profile` when the file is profiles.yml.
DocOf(i, shape, profile) ==
    [kind |-> shape.kind,
     items |-> [k \in 1..Len(shape.items) |->
        LET it == shape.items[k]
            key == KeyOf(i, it.keysel)
        IN  [key |-> key, vkind |-> it.vkind,
             entries |-> [j \in 1..Len(it.ids) |->
                RawItem(i, key, it.ids[j], it.ids[j] \notin it.bad, profile)]]]]

PlainProfile == ProfileOf(RefsOf(<<>>), NoSkills)

PresentSets(n) == {S \in SUBSET FileNames : Cardinality(S) <= n}

\* A directory whose present files are those of S, file f of shape g[f].
LoadDir(S, g) ==
    [exists |-> TRUE, path |-> "data",
     files |-> [f \in FileNames |->
                  IF f \in S THEN DocOf(FileIndex(f), g[f], PlainProfile) ELSE Absent]]

\* A directory of a profiles.yml holding the one profile p, named "A", and
\* of the record files of S, file f of shape g[f].
ProfileDir(S, g, p) ==
    [exists |-> TRUE, path |-> "data",
     files |-> [f \in FileNames |->
                  IF f = "profiles.yml"
                  THEN DocOf(FileIndex(f),
                             DocShape("dict", <<ItemShape("own", "dict", <<"A">>, {})>>), p)
                  ELSE IF f \in S THEN DocOf(FileIndex(f), g[f], NoProfile)
                  ELSE Absent]]

NoDirectory == [exists |-> FALSE, path |-> "data", files |-> [f \in FileNames |-> Absent]]

RecordFileNames == FileNames \ {"profiles.yml"}

\* The directories drawn:
\*   - no directory, and the directory without data files;
\*   - at most MaxPresent files: one of any shape, the others of the simple
\*     shapes;
\*   - a profiles.yml of one profile, alone or beside one valid record file.
IsDataDir(d) ==
    \/ d = NoDirectory
    \/ d = LoadDir({}, <<>>)
    \/ \E r \in FileNames : \E shape \in DocShapes :
         \E S \in PresentSets(MaxPresent - 1) \cap SUBSET (FileNames \ {r}) :
          \E g \in [S -> SimpleDocShapes] :
            d = LoadDir(S \cup {r}, [f \in S \cup {r} |-> IF f = r THEN shape ELSE g[f]])
    \/ \E S \in {{}} \cup {{f} : f \in RecordFileNames} :
          \E g \in [S -> ValidDocShapes] : \E p \in Profiles : d = ProfileDir(S, g, p)

(***************************************************************************)
(* The loader's calls                                                      *)
(***************************************************************************)
InitLoader ==
    /\ pc = "load_shared_data"
    /\ IsDataDir(data_dir)
    /\ profile_name = ""
    /\ shared = EmptyShared
    /\ loadLocal = EmptyShared
    /\ visited = <<>>
    /\ warned = {}
    /\ context = NoContext
    /\ exc = NoExc
    /\ text = <<>>
    /\ escaped = <<>>
    /\ personal_info = ValidPersonalInfo
    /\ argv = NoCommandLine
    /\ fs = NoFiles
    /\ output = ""
    /\ stages = <<>>
    /\ exit_code = <<>>
    /\ stderr = <<>>
    /\ generator = NoGenerator
    /\ rendered = NoText
    /\ out_dir = "missing"
    /\ logger = FreshLogger
    /\ log_call = NoLogCall

\* One call of load_shared_data(data_dir).
LoadSharedDataCall ==
    /\ pc = "load_shared_data"
    /\ LET r == LoadSharedData(data_dir)
       IN  /\ pc' = IF r.exc = NoExc THEN "loaded" ELSE "load_raised"
           /\ shared' = IF r.exc = NoExc THEN r.shared ELSE EmptyShared
           /\ loadLocal' = r.shared
           /\ visited' = r.visited
           /\ warned' = r.warned
           /\ exc' = r.exc
    /\ UNCHANGED <<text, escaped, data_dir, profile_name, context, cliVars>>

\* One call of build_resume_context(personal_info, name, shared) on the
\* SharedData load_shared_data returned: the first, or one more after an
\* earlier call returned or raised. `stages` keeps the names asked for.
BuildResumeContextCall ==
    /\ pc \in {"loaded", "built", "build_raised"}
    /\ Len(stages) < MaxBuilds
    /\ \E name \in ProfileNames :
        LET r == BuildResumeContext(personal_info, name, shared)
            after == InputsAfterBuild(personal_info, shared, r)
        IN  /\ pc' = IF r.exc = NoExc THEN "built" ELSE "build_raised"
            /\ profile_name' = name
            /\ context' = r.context
            /\ exc' = r.exc
            /\ shared' = after.shared
            /\ personal_info' = after.personal_info
            /\ stages' = Append(stages, name)
    /\ UNCHANGED <<text, escaped, data_dir, loadLocal, visited, warned, argv, fs, output,
                   exit_code, stderr, generator, rendered, out_dir, logger, log_call>>

NextLoader == LoadSharedDataCall \/ BuildResumeContextCall

SpecLoader == InitLoader /\ [][NextLoader]_vars

(***************************************************************************)
(* Claims about the loader (checked under SpecLoader)                      *)
(***************************************************************************)
LoadReturned == pc \in {"loaded", "built", "build_raised"}
LoadEnded == LoadReturned \/ pc = "load_raised"
BuildEnded == pc \in {"built", "build_raised"}
\* load_shared_data has just ended: exc is what it raised, if anything.
LoadJustEnded == pc \in {"loaded", "load_raised"}

\* The profile asked for is a key of shared.profiles and a Profile.
AskedIsProfile ==
    /\ HasKey(shared.profiles, profile_name)
    /\ Get(shared.profiles, profile_name).cls = "Profile"

AskedRefs == Get(shared.profiles, profile_name).profile.refs

\* The positions of list s of the asked profile whose ID shared[s] lacks.
MissingIn(s) == {j \in 1..Len(AskedRefs[s]) : ~HasKey(shared[s], AskedRefs[s][j])}

SomeMissing == \E i \in 1..Len(Sections) : MissingIn(Sections[i].name) # {}

\* The first unresolvable ID: sections in the order of Sections, IDs in
\* list order.
FirstMissingId ==
    LET i == CHOOSE i \in 1..Len(Sections) :
                /\ MissingIn(Sections[i].name) # {}
                /\ \A k \in 1..(i - 1) : MissingIn(Sections[k].name) = {}
        s == Sections[i].name
        j == CHOOSE j \in MissingIn(s) : \A k \in MissingIn(s) : j <= k
    IN  AskedRefs[s][j]

\* C1: for a profile of the shared data whose referenced IDs all exist,
\* build_resume_context returns, for each of the seven lists, a list of the
\* same length whose i-th record is the record shared holds under the i-th
\* ID.
C1_ResolvedInListOrder ==
    (BuildEnded /\ AskedIsProfile /\ ~SomeMissing) =>
        /\ pc = "built"
        /\ \A s \in SectionNames :
            /\ Len(context.sections[s]) = Len(AskedRefs[s])
            /\ \A i \in 1..Len(AskedRefs[s]) :
                 context.sections[s][i] = Get(shared[s], AskedRefs[s][i])

\* C2: a profile that references an ID its mapping lacks makes
\* build_resume_context raise a DataError naming the profile and the first
\* unresolvable ID, and no TemplateContext is returned.
C2_MissingReferenceRaises ==
    (BuildEnded /\ AskedIsProfile /\ SomeMissing) =>
        /\ pc = "build_raised"
        /\ exc = Exc("DataError", "Missing reference in profile",
                     <<profile_name, FirstMissingId>>)
        /\ context = NoContext

\* C2's case: the raise, for a list whose first ID resolves and whose second
\* does not.
C2_Witness ==
    /\ pc = "build_raised"
    /\ AskedIsProfile
    /\ exc.msg = "Missing reference in profile"
    /\ \E s \in SectionNames :
        /\ Len(AskedRefs[s]) = 2
        /\ MissingIn(s) = {2}

\* C3: a profile name that is no key of shared.profiles makes
\* build_resume_context raise a DataError citing the name, whatever the
\* other mappings hold; nothing is resolved and no context is returned.
C3_UnknownProfileRaises ==
    (BuildEnded /\ ~HasKey(shared.profiles, profile_name)) =>
        /\ pc = "build_raised"
        /\ exc = Exc("DataError", "Profile not found in shared data", <<profile_name>>)
        /\ context = NoContext

\* C3's case: the raise, with other profiles and records in the shared data.
C3_Witness ==
    /\ pc = "build_raised"
    /\ ~HasKey(shared.profiles, profile_name)
    /\ shared.profiles # <<>>
    /\ \E s \in SectionNames : shared[s] # <<>>

\* The parsed document of a data file of the directory.
DocAt(f) == data_dir.files[f]

\* What C4 calls present but invalid: text that is no YAML, an empty file,
\* a document that is no mapping.
InvalidKinds == {"badyaml", "null", "list"}

C5_AbsentFileEmptyMapping ==
    (LoadJustEnded /\ data_dir.exists) =>
        \A i \in 1..Len(data_files) :
            DocAt(data_files[i].file).kind = "absent" =>
                /\ exc.names # <<data_files[i].file>>
                /\ pc = "loaded" => shared[data_files[i].attr] = <<>>

\* A top-level value that is a dict holding an item that fails validation.
BadItem(it) == it.vkind = "dict" /\ \E j \in 1..Len(it.entries) : ~it.entries[j].valid

HasInvalidItem(doc) == doc.kind = "dict" /\ \E k \in 1..Len(doc.items) : BadItem(doc.items[k])

\* The validation of the items under the k-th top-level key is come to and
\* fails: every dict before it validated and was stored in a field.
FailsAt(doc, k) ==
    /\ doc.kind = "dict"
    /\ k \in 1..Len(doc.items)
    /\ BadItem(doc.items[k])
    /\ \A m \in 1..(k - 1) :
        doc.items[m].vkind = "dict" =>
            (~BadItem(doc.items[m]) /\ doc.items[m].key \in SharedFields)

\* No record of the local SharedData comes from file f's mapping under key.
NothingStoredFrom(f, key) ==
    \A a \in SharedFields : \A j \in 1..Len(loadLocal[a]) :
        ~(loadLocal[a][j].rec.tag[1] = f /\ loadLocal[a][j].rec.tag[2] = key)

\* C6: an item that fails validation makes load_shared_data raise a
\* DataError naming its file; no later file is come to, no SharedData is
\* returned and no item of the failing mapping has been stored.
C6_ValidationFailureStops ==
    (LoadJustEnded /\ data_dir.exists) =>
        /\ (\E f \in FileNames : HasInvalidItem(DocAt(f))) => pc = "load_raised"
        /\ \A i \in 1..Len(visited) : \A k \in 1..Len(DocAt(visited[i]).items) :
            FailsAt(DocAt(visited[i]), k) =>
                /\ i = Len(visited)
                /\ pc = "load_raised"
                /\ exc = Exc("DataError", "Validation failed for", <<visited[i]>>)
                /\ NothingStoredFrom(visited[i], DocAt(visited[i]).items[k].key)

\* C6's case: the mapping's first item is valid and its second is not, and
\* a file that comes later is present.
C6_Witness ==
    /\ pc = "load_raised"
    /\ exc.msg = "Validation failed for"
    /\ \E k \in 1..Len(DocAt(visited[Len(visited)]).items) :
        LET it == DocAt(visited[Len(visited)]).items[k]
        IN  Len(it.entries) = 2 /\ it.entries[1].valid /\ ~it.entries[2].valid
    /\ \E i \in (Len(visited) + 1)..Len(data_files) :
        DocAt(data_files[i].file).kind = "dict"

\* The other processing orders tried: the reverse of the code's, and the
\* code's with two neighbours exchanged.
OtherOrders ==
    { [i \in 1..Len(data_files) |-> Len(data_files) + 1 - i] }
    \cup { [i \in 1..Len(data_files) |->
              IF i = k THEN k + 1 ELSE IF i = k + 1 THEN k ELSE i] :
           k \in 1..(Len(data_files) - 1) }

\* C7: the SharedData load_shared_data returns is the one it would return
\* coming to the files in any other order.
C7_OrderIndependent ==
    pc = "loaded" =>
        \A order \in OtherOrders :
            /\ LoadSharedDataIn(data_dir, order).exc = NoExc
            /\ LoadSharedDataIn(data_dir, order).shared = shared

(***************************************************************************)
(* generator.py: ResumeGenerator._latex_escape                             *)
(***************************************************************************)
\* The longest escaped string drawn, in characters.
MaxLen == 3

BACKSLASH == "\\"

\* The ordered substitution list of _latex_escape (old, new).  A run of
\* letters in a replacement ("textbackslash") is one element: no entry of
\* the list matches inside it.
replacements ==
    << <<BACKSLASH, <<BACKSLASH, "textbackslash", "{", "}">> >>,
       <<"&", <<BACKSLASH, "&">> >>,
       <<"%", <<BACKSLASH, "%">> >>,
       <<"$", <<BACKSLASH, "$">> >>,
       <<"#", <<BACKSLASH, "#">> >>,
       <<"_", <<BACKSLASH, "_">> >>,
       <<"{", <<BACKSLASH, "{">> >>,
       <<"}", <<BACKSLASH, "}">> >>,
       <<"~", <<BACKSLASH, "textasciitilde", "{", "}">> >>,
       <<"^", <<BACKSLASH, "^", "{", "}">> >> >>

\* Python's str.replace(old, new) for a one-character old: every occurrence
\* of old in s, left to right, becomes new.
RECURSIVE Replace(_, _, _)
Replace(s, old, new) ==
    IF s = <<>> THEN <<>>
    ELSE (IF Head(s) = old THEN new ELSE <<Head(s)>>) \o Replace(Tail(s), old, new)

\* for old, new in replacements: text = text.replace(old, new), from the
\* i-th entry of the list on.
RECURSIVE ApplyReplacements(_, _)
ApplyReplacements(s, i) ==
    IF i > Len(replacements) THEN s
    ELSE ApplyReplacements(Replace(s, replacements[i][1], replacements[i][2]), i + 1)

LatexEscape(s) == ApplyReplacements(s, 1)

SpecialChars == {replacements[i][1] : i \in 1..Len(replacements)}

\* The characters strings are drawn from: the ten reserved ones, a letter
\* and a blank.
Alphabet == SpecialChars \cup {"a", " "}

\* The string of the documented example, "100% & $5_a".
ExampleText == <<"100", "%", " ", "&", " ", "$", "5", "_", "a">>
ExampleEscaped ==
    <<"100", BACKSLASH, "%", " ", BACKSLASH, "&", " ", BACKSLASH, "$", "5",
      BACKSLASH, "_", "a">>

Texts == SeqsUpTo(Alphabet, MaxLen) \cup {ExampleText}

InitEscape ==
    /\ pc = "latex_escape"
    /\ text \in Texts
    /\ escaped = <<>>
    /\ data_dir = NoDirectory
    /\ profile_name = ""
    /\ shared = EmptyShared
    /\ loadLocal = EmptyShared
    /\ visited = <<>>
    /\ warned = {}
    /\ context = NoContext
    /\ exc = NoExc
    /\ CliIdle

\* One call of ResumeGenerator._latex_escape(text).
LatexEscapeCall ==
    /\ pc = "latex_escape"
    /\ escaped' = LatexEscape(text)
    /\ pc' = "latex_escape_returned"
    /\ UNCHANGED <<text, data_dir, profile_name, shared, loadLocal, visited, warned,
                   context, exc, cliVars>>

NextEscape == LatexEscapeCall

SpecEscape == InitEscape /\ [][NextEscape]_vars

(***************************************************************************)
(* C8                                                                      *)
(***************************************************************************)
\* The replacement of one character: its entry in the substitution list,
\* the character itself when it has none.
CharReplacement(c) ==
    IF c \in SpecialChars
    THEN (CHOOSE r \in {replacements[i] : i \in 1..Len(replacements)} : r[1] = c)[2]
    ELSE <<c>>

RECURSIVE PerCharacter(_)
PerCharacter(s) ==
    IF s = <<>> THEN <<>> ELSE CharReplacement(Head(s)) \o PerCharacter(Tail(s))

\* C8: _latex_escape returns the concatenation, in input order, of each
\* character's replacement; nothing a substitution inserted is escaped
\* again by a later one; and "100% & $5_a" yields 100\% \& \$5\_a.
C8_PerCharacterEscape ==
    pc = "latex_escape_returned" =>
        /\ escaped = PerCharacter(text)
        /\ (text = ExampleText => escaped = ExampleEscaped)

(***************************************************************************)
(* cli.py: main, and what it calls of loader.py and generator.py           *)
(***************************************************************************)
\* The four options main declares, each required.
RequiredFlags == {"-d", "-p", "-t", "-o"}

\* A line on the error stream: its fixed text and the exception it shows.
ErrLine(t, e) == [text |-> t, of |-> e.msg]

\* parser.parse_args(): -h prints the help and exits with 0; a missing
\* required option, then an unrecognized argument, is an error: usage on
\* the error stream and exit status 2.
ParseArgs(av) ==
    IF av.extra = "-h"
    THEN [exit |-> <<0>>, stderr |-> <<>>]
    ELSE IF av.given # RequiredFlags
    THEN [exit |-> <<2>>,
          stderr |-> <<ErrLine("usage: the following arguments are required", NoExc)>>]
    ELSE IF av.extra # "none"
    THEN [exit |-> <<2>>, stderr |-> <<ErrLine("usage: unrecognized arguments", NoExc)>>]
    ELSE [exit |-> <<>>, stderr |-> <<>>]

\* PersonalInfoPath giving the name of the file without its directory.
PersonalInfoPath_NameOnly(dir) == <<"personal_info.yml">>

\* filepath = data_dir / "personal_info.yml"
PersonalInfoPath(dir) == <<dir.path, "personal_info.yml">>

\* load_personal_info(data_dir); doc is what personal_info.yml holds.
LoadPersonalInfo(dir, doc) ==
    CASE ~dir.exists \/ doc = "absent" ->
            [exc |-> Exc("ConfigError", "Personal info file not found",
                         <<PersonalInfoPath(dir)>>),
             value |-> ""]
      [] dir.exists /\ doc = "unreadable" ->
            [exc |-> Exc("PermissionError", "Permission denied", <<PersonalInfoPath(dir)>>),
             value |-> ""]
      [] dir.exists /\ doc = "undecodable" ->
            [exc |-> Exc("UnicodeDecodeError", "'utf-8' codec can't decode byte", <<>>),
             value |-> ""]
      [] dir.exists /\ doc = "badyaml" ->
            [exc |-> Exc("ConfigError", "Invalid YAML in", <<PersonalInfoPath(dir)>>),
             value |-> ""]
      [] dir.exists /\ doc \in {"null", "nokey", "list"} ->
            [exc |-> Exc("DataError", "personal_info.yml must contain 'personal_info' key", <<>>),
             value |-> ""]
      [] dir.exists /\ doc = "number" ->
            [exc |-> Exc("TypeError", "argument of type 'int' is not iterable", <<>>),
             value |-> ""]
      [] dir.exists /\ doc = "invalid" ->
            [exc |-> Exc("DataError", "Validation failed for", <<PersonalInfoPath(dir)>>),
             value |-> ""]
      [] dir.exists /\ doc = "valid" ->
            [exc |-> NoExc, value |-> ValidPersonalInfo]

\* ResumeGenerator without the check of template_path.exists() and with no
\* except clause: the template engine's TemplateNotFound leaves it.
ResumeGeneratorInit_EngineError(tk) ==
    CASE tk \in {"absent", "directory"} ->
            Exc("TemplateNotFound", "template", <<"template">>)
      [] tk = "unreadable" -> Exc("PermissionError", "Permission denied", <<"template">>)
      [] tk = "syntax_error" -> Exc("TemplateSyntaxError", "unexpected tag", <<"template">>)
      [] tk \in {"render_error", "render_type_error", "ok"} -> NoExc

\* ResumeGenerator raising the built-in FileNotFoundError for a missing
\* template file.
ResumeGeneratorInit_FileNotFound(tk) ==
    CASE tk = "absent" -> Exc("FileNotFoundError", "Template not found", <<"template">>)
      [] tk = "directory" -> Exc("TemplateError", "Failed to load template", <<"template">>)
      [] tk = "unreadable" -> Exc("PermissionError", "Permission denied", <<"template">>)
      [] tk = "syntax_error" -> Exc("TemplateSyntaxError", "unexpected tag", <<"template">>)
      [] tk \in {"render_error", "render_type_error", "ok"} -> NoExc

\* ResumeGenerator(template_path).
ResumeGeneratorInit(tk) ==
    CASE tk = "absent" -> Exc("TemplateError", "Template not found", <<"template">>)
      [] tk = "directory" -> Exc("TemplateError", "Failed to load template", <<"template">>)
      [] tk = "unreadable" -> Exc("PermissionError", "Permission denied", <<"template">>)
      [] tk = "syntax_error" -> Exc("TemplateSyntaxError", "unexpected tag", <<"template">>)
      [] tk \in {"render_error", "render_type_error", "ok"} -> NoExc

NoFile == [state |-> "absent", of |-> ""]
OldFile == [state |-> "old", of |-> ""]

\* self.template.render(context): the text, or what the template raises
\* while it is rendered.
Render(tk, ctx) ==
    CASE tk = "render_error" ->
            [exc |-> Exc("UndefinedError", "'x' is undefined", <<>>), content |-> NoText]
      [] tk = "render_type_error" ->
            [exc |-> Exc("TypeError", "unsupported operand type(s)", <<>>), content |-> NoText]
      [] OTHER -> [exc |-> NoExc, content |-> [state |-> "rendered", of |-> ctx.title]]

\* generate wrapping only the errors of the template engine's own.
Generate_EngineErrorsOnly(tk, ctx) ==
    LET r == Render(tk, ctx)
    IN  IF r.exc.type = "UndefinedError"
        THEN [exc |-> Exc("TemplateError", "Failed to render template", <<r.exc.msg>>),
              content |-> NoText]
        ELSE r

\* generate(context): the rendered text, or a TemplateError around whatever
\* the rendering raised, showing its message.
Generate(tk, ctx) ==
    LET r == Render(tk, ctx)
    IN  IF r.exc # NoExc
        THEN [exc |-> Exc("TemplateError", "Failed to render template", <<r.exc.msg>>),
              content |-> NoText]
        ELSE r

\* The tail of generate_to_file: the parent directories made, the file
\* opened for writing (created or truncated), the content written.
WriteOutput(ok, before, content) ==
    CASE ok = "mkdir_fails" ->
            [exc |-> Exc("PermissionError", "Permission denied", <<"output parent">>),
             output |-> before]
      [] ok = "open_fails" ->
            [exc |-> Exc("PermissionError", "Permission denied", <<"output">>),
             output |-> before]
      [] ok = "write_fails" ->
            [exc |-> Exc("OSError", "No space left on device", <<"output">>),
             output |-> [state |-> "partial", of |-> ""]]
      [] ok = "ok" -> [exc |-> NoExc, output |-> content]

\* output_path.parent.mkdir(parents=True, exist_ok=True)
MakeParents(ok, dir) == IF ok = "mkdir_fails" THEN dir ELSE "exists"

StageEntry(name, e) == [name |-> name, ok |-> e = NoExc]

\* generate_to_file opening the output file before it renders.
GenerateToFile_OpenFirst(tk, ctx, ok, before, dir) ==
    LET g == Generate(tk, ctx)
        w == WriteOutput(ok, before, g.content)
    IN  IF g.exc # NoExc
        THEN [exc |-> g.exc, output |-> [state |-> "partial", of |-> ""],
              dir |-> MakeParents(ok, dir), steps |-> <<StageEntry("render", g.exc)>>]
        ELSE [exc |-> w.exc, output |-> w.output, dir |-> MakeParents(ok, dir),
              steps |-> <<StageEntry("render", g.exc), StageEntry("write", w.exc)>>]

\* generate_to_file(context, output_path): the stages it went through, the
\* exception it raised and the output file it left.
GenerateToFile(tk, ctx, ok, before, dir) ==
    LET g == Generate(tk, ctx)
        w == WriteOutput(ok, before, g.content)
    IN  IF g.exc # NoExc
        THEN [exc |-> g.exc, output |-> before, dir |-> dir,
              steps |-> <<StageEntry("render", g.exc)>>]
        ELSE [exc |-> w.exc, output |-> w.output, dir |-> MakeParents(ok, dir),
              steps |-> <<StageEntry("render", g.exc), StageEntry("write", w.exc)>>]

\* Proceed with the run continuing after a statement of the try block that
\* raised.
Proceed_Swallow(e, next) == next

\* Where the run goes after a statement of the try block: to the except
\* clauses if it raised, else to the next statement.
Proceed(e, next) == IF e = NoExc THEN next ELSE "main_except"

\* Handler printing nothing and leaving with status 0 for an exception
\* that is none of the package's own.
Handler_OwnErrorsOnly(e) ==
    IF e.type \in ResuModelErrors
    THEN [stderr |-> <<ErrLine("ERROR:", e)>>, exit |-> <<1>>]
    ELSE [stderr |-> <<>>, exit |-> <<0>>]

\* The except clauses of main: what is printed on the error stream, and
\* the status of sys.exit.
Handler(e) ==
    CASE e.type = "FileNotFoundError" ->
            [stderr |-> <<ErrLine("ERROR:", e)>>, exit |-> <<1>>]
      [] e.type = "ValidationError" ->
            [stderr |-> <<ErrLine("ERROR: Configuration validation failed:", NoExc),
                          ErrLine("", e)>>,
             exit |-> <<1>>]
      [] e.type = "KeyError" ->
            [stderr |-> <<ErrLine("ERROR: Missing reference:", e),
                          ErrLine("Check that all referenced IDs exist in shared data files.",
                                  NoExc)>>,
             exit |-> <<1>>]
      [] OTHER -> [stderr |-> <<ErrLine("ERROR:", e)>>, exit |-> <<1>>]

(***************************************************************************)
(* The command lines and environments main is run on                       *)
(***************************************************************************)
\* The command lines: all four options or all but one, alone or with -h or
\* with an option main does not declare.
CommandLines ==
    { [given |-> g, extra |-> x, profile |-> p] :
        g \in {RequiredFlags} \cup {RequiredFlags \ {f} : f \in {"-p", "-o"}},
        x \in {"none", "-h", "-v"},
        p \in ProfileNames }

\* What personal_info.yml may be: absent, not readable, no UTF-8 text, no
\* YAML, empty, a mapping without the key, a list, a number, a mapping
\* whose personal_info does not validate or validates.
PersonalDocs ==
    {"absent", "unreadable", "undecodable", "badyaml", "null", "nokey", "list", "number",
     "invalid", "valid"}

TemplateKinds ==
    {"absent", "directory", "unreadable", "syntax_error", "render_error",
     "render_type_error", "ok"}

OutputKinds == {"mkdir_fails", "open_fails", "write_fails", "ok"}

ExperienceA == ProfileOf(RefsOf(<< <<"experiences", "A">> >>), NoSkills)

OwnA(bad) == DocShape("dict", <<ItemShape("own", "dict", <<"A">>, bad)>>)

\* The data directories of a run: none; a profile without references; a
\* profile whose reference resolves, is missing, or resolves to a record
\* projects.yml stored under `experiences`; an item that fails validation;
\* a file that is no YAML.
CliDirs ==
    { NoDirectory,
      ProfileDir({}, <<>>, PlainProfile),
      ProfileDir({"experiences.yml"}, [f \in {"experiences.yml"} |-> OwnA({})], ExperienceA),
      ProfileDir({}, <<>>, ExperienceA),
      ProfileDir({"projects.yml"},
                 [f \in {"projects.yml"} |->
                    DocShape("dict", <<ItemShape("foreign", "dict", <<"A">>, {})>>)],
                 ExperienceA),
      LoadDir({"experiences.yml"}, [f \in {"experiences.yml"} |-> OwnA({"A"})]),
      LoadDir({"experiences.yml"}, [f \in {"experiences.yml"} |-> DocShape("badyaml", <<>>)]) }

InitCli ==
    /\ pc = "main_parse_args"
    /\ argv \in CommandLines
    /\ data_dir \in CliDirs
    /\ fs \in [personal : PersonalDocs, template : TemplateKinds, out : OutputKinds,
               before : {NoFile, OldFile}, parent : {"missing", "exists"}]
    /\ ~data_dir.exists => fs.personal = "absent"
    /\ output = fs.before
    /\ fs.before = OldFile => fs.parent = "exists"
    /\ fs.out = "mkdir_fails" => fs.parent = "missing"
    /\ out_dir = fs.parent
    /\ logger = FreshLogger
    /\ log_call = NoLogCall
    /\ generator = NoGenerator
    /\ rendered = NoText
    /\ personal_info = ""
    /\ stages = <<>>
    /\ exit_code = <<>>
    /\ stderr = <<>>
    /\ profile_name = ""
    /\ shared = EmptyShared
    /\ loadLocal = EmptyShared
    /\ visited = <<>>
    /\ warned = {}
    /\ context = NoContext
    /\ exc = NoExc
    /\ text = <<>>
    /\ escaped = <<>>

\* args = parser.parse_args()
MainParseArgs ==
    /\ pc = "main_parse_args"
    /\ LET r == ParseArgs(argv)
       IN  /\ pc' = IF r.exit = <<>> THEN "main_load_personal_info" ELSE "exited"
           /\ exit_code' = r.exit
           /\ stderr' = r.stderr
           /\ profile_name' = IF r.exit = <<>> THEN argv.profile ELSE profile_name
    /\ UNCHANGED <<text, escaped, data_dir, shared, loadLocal, visited, warned, context,
                   exc, argv, fs, personal_info, output, stages, generator, rendered, out_dir,
                   logger, log_call>>

\* personal_info = load_personal_info(args.data_dir)
MainLoadPersonalInfo ==
    /\ pc = "main_load_personal_info"
    /\ LET r == LoadPersonalInfo(data_dir, fs.personal)
       IN  /\ personal_info' = r.value
           /\ exc' = r.exc
           /\ stages' = Append(stages, StageEntry("load_personal_info", r.exc))
           /\ pc' = Proceed(r.exc, "main_load_shared_data")
    /\ UNCHANGED <<text, escaped, data_dir, profile_name, shared, loadLocal, visited,
                   warned, context, argv, fs, output, exit_code, stderr, generator,
                   rendered, out_dir, logger, log_call>>

\* shared = load_shared_data(args.data_dir)
MainLoadSharedData ==
    /\ pc = "main_load_shared_data"
    /\ LET r == LoadSharedData(data_dir)
       IN  /\ shared' = IF r.exc = NoExc THEN r.shared ELSE EmptyShared
           /\ loadLocal' = r.shared
           /\ visited' = r.visited
           /\ warned' = r.warned
           /\ exc' = r.exc
           /\ stages' = Append(stages, StageEntry("load_shared_data", r.exc))
           /\ pc' = Proceed(r.exc, "main_build_resume_context")
    /\ UNCHANGED <<text, escaped, data_dir, profile_name, context, argv, fs,
                   personal_info, output, exit_code, stderr, generator, rendered, out_dir,
                   logger, log_call>>

\* context = build_resume_context(personal_info, args.profile, shared)
MainBuildResumeContext ==
    /\ pc = "main_build_resume_context"
    /\ LET r == BuildResumeContext(personal_info, profile_name, shared)
       IN  /\ context' = r.context
           /\ exc' = r.exc
           /\ stages' = Append(stages, StageEntry("build_resume_context", r.exc))
           /\ pc' = Proceed(r.exc, "main_load_template")
    /\ UNCHANGED <<text, escaped, data_dir, profile_name, shared, loadLocal, visited,
                   warned, argv, fs, personal_info, output, exit_code, stderr, generator,
                   rendered, out_dir, logger, log_call>>

\* generator = ResumeGenerator(args.template)
MainLoadTemplate ==
    /\ pc = "main_load_template"
    /\ LET e == ResumeGeneratorInit(fs.template)
       IN  /\ exc' = e
           /\ generator' = IF e = NoExc THEN [template |-> fs.template] ELSE NoGenerator
           /\ stages' = Append(stages, StageEntry("load_template", e))
           /\ pc' = Proceed(e, "main_generate_to_file")
    /\ UNCHANGED <<text, escaped, data_dir, profile_name, shared, loadLocal, visited,
                   warned, context, argv, fs, personal_info, output, exit_code, stderr,
                   rendered, out_dir, logger, log_call>>

\* generator.generate_to_file(context, args.output)
MainGenerateToFile ==
    /\ pc = "main_generate_to_file"
    /\ LET r == GenerateToFile(generator.template, context, fs.out, output, out_dir)
       IN  /\ output' = r.output
           /\ out_dir' = r.dir
           /\ exc' = r.exc
           /\ stages' = stages \o r.steps
           /\ pc' = Proceed(r.exc, "main_success")
    /\ UNCHANGED <<text, escaped, data_dir, profile_name, shared, loadLocal, visited,
                   warned, context, argv, fs, personal_info, exit_code, stderr,
                   generator, rendered, logger, log_call>>

\* The success message is printed and main returns: exit status 0.
MainReturn ==
    /\ pc = "main_success"
    /\ exit_code' = <<0>>
    /\ pc' = "exited"
    /\ UNCHANGED <<text, escaped, data_dir, profile_name, shared, loadLocal, visited,
                   warned, context, exc, argv, fs, personal_info, output, stages, stderr,
                   generator, rendered, out_dir, logger, log_call>>

\* An except clause prints the message and calls sys.exit(1).
MainExcept ==
    /\ pc = "main_except"
    /\ LET h == Handler(exc)
       IN  /\ stderr' = h.stderr
           /\ exit_code' = h.exit
    /\ pc' = "exited"
    /\ UNCHANGED <<text, escaped, data_dir, profile_name, shared, loadLocal, visited,
                   warned, context, exc, argv, fs, personal_info, output, stages,
                   generator, rendered, out_dir, logger, log_call>>

Next ==
    \/ MainParseArgs
    \/ MainLoadPersonalInfo
    \/ MainLoadSharedData
    \/ MainBuildResumeContext
    \/ MainLoadTemplate
    \/ MainGenerateToFile
    \/ MainReturn
    \/ MainExcept

Spec == InitCli /\ [][Next]_vars

(***************************************************************************)
(* Claims about the command-line run (checked under Spec)                  *)
(***************************************************************************)
\* The stages of a run, in the order of the statements of main.
StageOrder ==
    <<"load_personal_info", "load_shared_data", "build_resume_context", "load_template",
      "render", "write">>

\* A stage before the write failed.
FailedBeforeWrite ==
    \E i \in 1..Len(stages) : stages[i].name # "write" /\ ~stages[i].ok

\* C9: the stages of a run happen in the order load personal info, load
\* shared data, resolve profile, load template, render, write, each only
\* after the ones before it succeeded; the output file differs from what
\* it was before the run only if the write stage was come to; a run in
\* which a stage before the write failed ends with a non-zero exit status
\* and the output file as it was.
C9_WriteOnlyAfterAllStages ==
    /\ Len(stages) <= Len(StageOrder)
    /\ \A i \in 1..Len(stages) :
        /\ stages[i].name = StageOrder[i]
        /\ i < Len(stages) => stages[i].ok
    /\ output # fs.before => Len(stages) = Len(StageOrder)
    /\ (pc = "exited" /\ FailedBeforeWrite) =>
        /\ exit_code # <<>>
        /\ exit_code # <<0>>
        /\ output = fs.before

\* C9's case: the profile asked for is unknown, an output file exists, and
\* the run has ended.
C9_Witness ==
    /\ pc = "exited"
    /\ exc = Exc("DataError", "Profile not found in shared data", <<"Q">>)
    /\ stages[Len(stages)] = [name |-> "build_resume_context", ok |-> FALSE]
    /\ fs.before = OldFile
    /\ fs.template = "ok"
    /\ fs.out = "ok"

\* The run went through every stage and each succeeded.
GenerationSucceeded ==
    /\ Len(stages) = Len(StageOrder)
    /\ \A i \in 1..Len(stages) : stages[i].ok
    /\ output.state = "rendered"

\* C10 as stated: a run that has ended has exit status 0 exactly when the
\* generation succeeded, and otherwise exit status 1 and a message on the
\* error stream.
C10_ExitZeroOrOne ==
    pc = "exited" =>
        /\ exit_code = <<0>> <=> GenerationSucceeded
        /\ exit_code # <<0>> => (exit_code = <<1>> /\ stderr # <<>>)

\* C10, amended: a run whose command line the parser accepts ends with
\* exit status 0 exactly when the generation succeeded, and otherwise with
\* exit status 1 and a message on the error stream showing the exception,
\* whatever its type; a command line the parser rejects ends the run with
\* exit status 2 and a usage message, and -h with exit status 0, both
\* before any stage.
C10_ExitStatus ==
    pc = "exited" =>
        IF ParseArgs(argv).exit = <<>>
        THEN /\ exit_code = <<0>> <=> GenerationSucceeded
             /\ exit_code = <<0>> => (exc = NoExc /\ stderr = <<>>)
             /\ exit_code # <<0>> =>
                   /\ exit_code = <<1>>
                   /\ exc # NoExc
                   /\ \E i \in 1..Len(stderr) : stderr[i].of = exc.msg
        ELSE /\ stages = <<>>
             /\ output = fs.before
             /\ exit_code = IF argv.extra = "-h" THEN <<0>> ELSE <<2>>
             /\ exit_code = <<2>> => stderr # <<>>

\* C10's case: the run ended on an exception that is none of the
\* package's own.
C10_Witness ==
    /\ pc = "exited"
    /\ exc.type \notin ResuModelErrors \cup {"none"}
    /\ exit_code = <<1>>
    /\ stderr = <<ErrLine("ERROR:", exc)>>

\* The data, the profile asked for, the template and the output path of
\* the run are valid: every stage, run on them, succeeds.
ValidInputs ==
    LET pi == LoadPersonalInfo(data_dir, fs.personal)
        sh == LoadSharedData(data_dir)
        cx == BuildResumeContext(pi.value, argv.profile, sh.shared)
    IN  /\ pi.exc = NoExc
        /\ sh.exc = NoExc
        /\ cx.exc = NoExc
        /\ ResumeGeneratorInit(fs.template) = NoExc
        /\ GenerateToFile(fs.template, cx.context, fs.out, fs.before, out_dir).exc = NoExc

\* C11: a run given the four required options and valid inputs succeeds
\* and leaves the rendered output file, with or without the flag -v.
C11_VerboseFlagAccepted ==
    (/\ pc = "exited"
     /\ argv.given = RequiredFlags
     /\ argv.extra \in {"none", "-v"}
     /\ ValidInputs) =>
        /\ exit_code = <<0>>
        /\ output.state = "rendered"

\* C12: the context build_resume_context returns carries in sections.skills
\* the skills list of the profile asked for, the empty list included, and
\* no skills only when the profile has none.
C12_SkillsPassThrough ==
    pc = "built" =>
        context.skills = Get(shared.profiles, profile_name).profile.skills

(***************************************************************************)
(* generator.py: the calls of ResumeGenerator on their own                 *)
(***************************************************************************)
\* The contexts rendered: two that differ in their title.
GeneratorContexts ==
    { [NoContext EXCEPT !.personal_info = ValidPersonalInfo, !.title = t] :
        t \in {"Title", "Other"} }

InitGenerator ==
    /\ pc = "generator_init"
    /\ fs \in [personal : {"absent"}, template : TemplateKinds, out : OutputKinds,
               before : {NoFile, OldFile}, parent : {"missing", "exists"}]
    /\ context \in GeneratorContexts
    /\ output = fs.before
    /\ fs.before = OldFile => fs.parent = "exists"
    /\ fs.out = "mkdir_fails" => fs.parent = "missing"
    /\ out_dir = fs.parent
    /\ logger = FreshLogger
    /\ log_call = NoLogCall
    /\ generator = NoGenerator
    /\ rendered = NoText
    /\ argv = NoCommandLine
    /\ personal_info = ""
    /\ stages = <<>>
    /\ exit_code = <<>>
    /\ stderr = <<>>
    /\ data_dir = NoDirectory
    /\ profile_name = ""
    /\ shared = EmptyShared
    /\ loadLocal = EmptyShared
    /\ visited = <<>>
    /\ warned = {}
    /\ exc = NoExc
    /\ text = <<>>
    /\ escaped = <<>>

\* generator = ResumeGenerator(template_path)
ResumeGeneratorCall ==
    /\ pc = "generator_init"
    /\ LET e == ResumeGeneratorInit(fs.template)
       IN  /\ exc' = e
           /\ generator' = IF e = NoExc THEN [template |-> fs.template] ELSE NoGenerator
           /\ pc' = IF e = NoExc THEN "constructed" ELSE "init_raised"
    /\ UNCHANGED <<text, escaped, data_dir, profile_name, shared, loadLocal, visited,
                   warned, context, argv, fs, personal_info, output, stages, exit_code,
                   stderr, rendered, out_dir, logger, log_call>>

\* generator.generate(context)
GenerateCall ==
    /\ pc = "constructed"
    /\ LET r == Generate(generator.template, context)
       IN  /\ exc' = r.exc
           /\ rendered' = r.content
           /\ pc' = IF r.exc = NoExc THEN "generated" ELSE "generate_raised"
    /\ UNCHANGED <<text, escaped, data_dir, profile_name, shared, loadLocal, visited,
                   warned, context, argv, fs, personal_info, output, stages, exit_code,
                   stderr, generator, out_dir, logger, log_call>>

\* generator.generate_to_file(context, output_path)
GenerateToFileCall ==
    /\ pc = "constructed"
    /\ LET r == GenerateToFile(generator.template, context, fs.out, output, out_dir)
       IN  /\ exc' = r.exc
           /\ output' = r.output
           /\ out_dir' = r.dir
           /\ stages' = r.steps
           /\ pc' = IF r.exc = NoExc THEN "written" ELSE "generate_to_file_raised"
    /\ UNCHANGED <<text, escaped, data_dir, profile_name, shared, loadLocal, visited,
                   warned, context, argv, fs, personal_info, exit_code, stderr, generator,
                   rendered, logger, log_call>>

NextGenerator == ResumeGeneratorCall \/ GenerateCall \/ GenerateToFileCall

SpecGenerator == InitGenerator /\ [][NextGenerator]_vars

EngineFails == fs.template \in {"directory", "syntax_error"}

\* C14: the constructor called on an existing template that the template
\* engine fails to load or parse raises TemplateError and nothing else.
C14_LoadFailureIsTemplateError ==
    (pc # "generator_init" /\ EngineFails) =>
        /\ pc = "init_raised"
        /\ exc.type = "TemplateError"

\* C15: generate returns the rendered text, or, whatever the rendering
\* raised, raises TemplateError showing the message of what was raised.
C15_RenderErrorsWrapped ==
    pc \in {"generated", "generate_raised"} =>
        LET r == Render(generator.template, context)
        IN  IF r.exc = NoExc
            THEN /\ pc = "generated"
                 /\ exc = NoExc
                 /\ rendered = r.content
            ELSE /\ pc = "generate_raised"
                 /\ exc.type = "TemplateError"
                 /\ exc.names = <<r.exc.msg>>
                 /\ rendered = NoText

\* C15's case: the rendering raised an error that is none of the template
\* engine's own.
C15_Witness ==
    /\ pc = "generate_raised"
    /\ Render(generator.template, context).exc.type = "TypeError"
    /\ exc.type = "TemplateError"

\* C16: after generate_to_file returned, the output file holds the rendered
\* text of the context and nothing else, and its parent directory exists;
\* after it raised because the rendering failed, the output file and its
\* parent directory are as they were.
C16_WritesRenderedText ==
    /\ pc = "written" =>
        /\ Render(generator.template, context).exc = NoExc
        /\ output = Render(generator.template, context).content
        /\ output = [state |-> "rendered", of |-> context.title]
        /\ out_dir = "exists"
    /\ (pc = "generate_to_file_raised"
        /\ Render(generator.template, context).exc # NoExc) =>
        /\ output = fs.before
        /\ out_dir = fs.parent

\* C16's case: the file was written below a parent directory that did not
\* exist.
C16_Witness ==
    /\ pc = "written"
    /\ fs.parent = "missing"
    /\ out_dir = "exists"
    /\ output.state = "rendered"

(***************************************************************************)
(* loader.py: load_yaml and load_personal_info on their own                *)
(***************************************************************************)
\* load_yaml(filepath, model); doc is what the file at filepath holds.
LoadYaml(filepath, doc) ==
    CASE doc = "absent" ->
            [exc |-> Exc("ConfigError", "Config file not found", <<filepath>>), value |-> ""]
      [] doc = "unreadable" ->
            [exc |-> Exc("PermissionError", "Permission denied", <<filepath>>), value |-> ""]
      [] doc = "undecodable" ->
            [exc |-> Exc("UnicodeDecodeError", "'utf-8' codec can't decode byte", <<>>),
             value |-> ""]
      [] doc = "badyaml" ->
            [exc |-> Exc("ConfigError", "Invalid YAML in", <<filepath>>), value |-> ""]
      [] doc = "null" ->
            [exc |-> Exc("ConfigError", "Empty YAML file", <<filepath>>), value |-> ""]
      [] doc = "mismatch" ->
            [exc |-> Exc("DataError", "Validation failed for", <<filepath>>), value |-> ""]
      [] doc = "match" -> [exc |-> NoExc, value |-> "model instance"]

\* What the file given to load_yaml may be: absent, not readable, no UTF-8
\* text, no YAML, empty, a document that does not match the model or does.
YamlDocs == {"absent", "unreadable", "undecodable", "badyaml", "null", "mismatch", "match"}

DirPaths == {"data", "examples/jane"}

\* The directories the two loaders are called on: none, and one without
\* data files, each under every path.
ConfigDirs ==
    { [d EXCEPT !.path = p] : d \in {NoDirectory, LoadDir({}, <<>>)}, p \in DirPaths }

InitConfig ==
    /\ pc = "config"
    /\ data_dir \in ConfigDirs
    /\ fs \in [personal : PersonalDocs, yaml : YamlDocs, template : {"absent"},
               out : {"ok"}, parent : {"missing"}]
    /\ ~data_dir.exists => (fs.personal = "absent" /\ fs.yaml = "absent")
    /\ argv = NoCommandLine
    /\ personal_info = ""
    /\ output = ""
    /\ stages = <<>>
    /\ exit_code = <<>>
    /\ stderr = <<>>
    /\ generator = NoGenerator
    /\ rendered = NoText
    /\ out_dir = "missing"
    /\ logger = FreshLogger
    /\ log_call = NoLogCall
    /\ profile_name = ""
    /\ shared = EmptyShared
    /\ loadLocal = EmptyShared
    /\ visited = <<>>
    /\ warned = {}
    /\ context = NoContext
    /\ exc = NoExc
    /\ text = <<>>
    /\ escaped = <<>>

\* load_personal_info(data_dir)
LoadPersonalInfoCall ==
    /\ pc = "config"
    /\ LET r == LoadPersonalInfo(data_dir, fs.personal)
       IN  /\ personal_info' = r.value
           /\ exc' = r.exc
           /\ pc' = IF r.exc = NoExc THEN "personal_info_loaded" ELSE "personal_info_raised"
    /\ UNCHANGED <<text, escaped, data_dir, profile_name, shared, loadLocal, visited,
                   warned, context, argv, fs, output, stages, exit_code, stderr,
                   generator, rendered, out_dir, logger, log_call>>

\* load_yaml(data_dir / "config.yml", model)
LoadYamlCall ==
    /\ pc = "config"
    /\ LET r == LoadYaml(<<data_dir.path, "config.yml">>, fs.yaml)
       IN  /\ personal_info' = r.value
           /\ exc' = r.exc
           /\ pc' = IF r.exc = NoExc THEN "yaml_loaded" ELSE "yaml_raised"
    /\ UNCHANGED <<text, escaped, data_dir, profile_name, shared, loadLocal, visited,
                   warned, context, argv, fs, output, stages, exit_code, stderr,
                   generator, rendered, out_dir, logger, log_call>>

NextConfig == LoadPersonalInfoCall \/ LoadYamlCall

SpecConfig == InitConfig /\ [][NextConfig]_vars

(***************************************************************************)
(* Claims about load_personal_info and load_yaml (checked under SpecConfig)*)
(***************************************************************************)
PersonalInfoEnded == pc \in {"personal_info_loaded", "personal_info_raised"}

\* C17: load_personal_info called on a directory without personal_info.yml,
\* or on no directory, raises ConfigError, and the message shows the path
\* <data_dir>/personal_info.yml.
C17_MissingPersonalInfoRaises ==
    (PersonalInfoEnded /\ (~data_dir.exists \/ fs.personal = "absent")) =>
        /\ pc = "personal_info_raised"
        /\ exc.type = "ConfigError"
        /\ exc.names = << <<data_dir.path, "personal_info.yml">> >>

\* C17's case: the directory exists under a path of two parts and has no
\* personal_info.yml.
C17_Witness ==
    /\ pc = "personal_info_raised"
    /\ data_dir.exists
    /\ data_dir.path = "examples/jane"
    /\ fs.personal = "absent"

\* C18: for a personal_info.yml that exists and whose text can be read,
\* load_personal_info raises ConfigError when the text is no YAML, raises
\* DataError when the document has no key personal_info (empty, scalar and
\* list documents included) or the value under it does not validate, and
\* otherwise returns the PersonalInfo; it raises nothing else.
C18_ThreeOutcomes ==
    (/\ PersonalInfoEnded
     /\ data_dir.exists
     /\ fs.personal \notin {"absent", "unreadable", "undecodable"}) =>
        CASE fs.personal = "badyaml" ->
                pc = "personal_info_raised" /\ exc.type = "ConfigError"
          [] fs.personal \in {"null", "nokey", "list", "number", "invalid"} ->
                pc = "personal_info_raised" /\ exc.type = "DataError"
          [] fs.personal = "valid" ->
                pc = "personal_info_loaded" /\ personal_info = ValidPersonalInfo

LoadYamlEnded == pc \in {"yaml_loaded", "yaml_raised"}

\* C19: load_yaml has one of five outcomes for every file it can open:
\* ConfigError 'Config file not found' for an absent file, ConfigError
\* 'Invalid YAML' for content that is no YAML, ConfigError 'Empty YAML file'
\* for an empty file, DataError 'Validation failed' for data that does not
\* match the model, and otherwise the validated instance.
C19_FiveOutcomes ==
    (LoadYamlEnded /\ fs.yaml # "unreadable") =>
        CASE fs.yaml = "absent" ->
                /\ pc = "yaml_raised"
                /\ exc.type = "ConfigError" /\ exc.msg = "Config file not found"
          [] fs.yaml \in {"badyaml", "undecodable"} ->
                /\ pc = "yaml_raised"
                /\ exc.type = "ConfigError" /\ exc.msg = "Invalid YAML in"
          [] fs.yaml = "null" ->
                /\ pc = "yaml_raised"
                /\ exc.type = "ConfigError" /\ exc.msg = "Empty YAML file"
          [] fs.yaml = "mismatch" ->
                /\ pc = "yaml_raised"
                /\ exc.type = "DataError" /\ exc.msg = "Validation failed for"
          [] fs.yaml = "match" ->
                /\ pc = "yaml_loaded"
                /\ exc = NoExc
                /\ personal_info = "model instance"

ConsoleHandler(n) ==
    [kind |-> "StreamHandler", target |-> "sys.stderr",
     format |-> "%(levelname)s: %(message)s", call |-> n]

FileHandler(n, log_file) ==
    [kind |-> "FileHandler", target |-> log_file,
     format |-> "%(asctime)s - %(name)s - %(levelname)s - %(message)s", call |-> n]

\* The value of the parameter level: logging.INFO when none is passed.
LevelOf(level) == IF level = "default" THEN "INFO" ELSE level

\* `if log_file:` holds: the argument is neither None nor the empty string.
GivesLogFile(log_file) == log_file \notin {"None", ""}

\* setup_logging without logger.handlers.clear().
SetupLogging_NoClear(lg, n, level, log_file) ==
    LET console == Append(lg.handlers, ConsoleHandler(n))
    IN  IF GivesLogFile(log_file) /\ log_file = "missing/dir/x.log"
        THEN [exc |-> Exc("FileNotFoundError", "No such file or directory", <<log_file>>),
              logger |-> [handlers |-> console, level |-> LevelOf(level)]]
        ELSE [exc |-> NoExc,
              logger |-> [handlers |-> IF GivesLogFile(log_file)
                                       THEN Append(console, FileHandler(n, log_file))
                                       ELSE console,
                          level |-> LevelOf(level)]]

\* setup_logging(level, log_file), the n-th call, on the logger lg: the
\* handlers are cleared, the level is set, the console handler is added,
\* and, if a log file is given, the file handler, whose construction
\* raises when the file cannot be opened.
SetupLogging(lg, n, level, log_file) ==
    LET console == <<ConsoleHandler(n)>>
    IN  IF GivesLogFile(log_file) /\ log_file = "missing/dir/x.log"
        THEN [exc |-> Exc("FileNotFoundError", "No such file or directory", <<log_file>>),
              logger |-> [handlers |-> console, level |-> LevelOf(level)]]
        ELSE [exc |-> NoExc,
              logger |-> [handlers |-> IF GivesLogFile(log_file)
                                       THEN Append(console, FileHandler(n, log_file))
                                       ELSE console,
                          level |-> LevelOf(level)]]

\* At most this many calls of setup_logging.
MaxCalls == 5

\* The levels passed ("default": none passed) and the log files given:
\* none, the empty string, two files, and a file in a missing directory.
Levels == {"default", "DEBUG", "INFO", "WARNING", "ERROR"}
LogFiles == {"None", "", "a.log", "b.log", "missing/dir/x.log"}

InitLogging ==
    /\ pc = "logging"
    /\ logger = FreshLogger
    /\ log_call = NoLogCall
    /\ exc = NoExc
    /\ CliIdleButLogger
    /\ data_dir = NoDirectory
    /\ profile_name = ""
    /\ shared = EmptyShared
    /\ loadLocal = EmptyShared
    /\ visited = <<>>
    /\ warned = {}
    /\ context = NoContext
    /\ text = <<>>
    /\ escaped = <<>>

\* One call of setup_logging(level, log_file).
SetupLoggingCall ==
    /\ pc \in {"logging", "logging_set_up", "logging_raised"}
    /\ log_call.n < MaxCalls
    /\ \E level \in Levels, log_file \in LogFiles :
        LET r == SetupLogging(logger, log_call.n + 1, level, log_file)
        IN  /\ logger' = r.logger
            /\ exc' = r.exc
            /\ log_call' = [n |-> log_call.n + 1, level |-> level, log_file |-> log_file]
            /\ pc' = IF r.exc = NoExc THEN "logging_set_up" ELSE "logging_raised"
    /\ UNCHANGED <<text, escaped, data_dir, profile_name, shared, loadLocal, visited,
                   warned, context, argv, fs, personal_info, output, stages, exit_code,
                   stderr, generator, rendered, out_dir>>

NextLogging == SetupLoggingCall

SpecLogging == InitLogging /\ [][NextLogging]_vars

(***************************************************************************)
(* Claims about the logging (checked under SpecLogging)                    *)
(***************************************************************************)
\* C21: after any calls of setup_logging, the last of which returned, the
\* logger holds the handlers that call created and no other: one console
\* handler, and after it one file handler if the call gave a log file; and
\* its level is the level passed to that call, INFO if none was passed.
C21_HandlersOfLastCall ==
    pc = "logging_set_up" =>
        /\ \A i \in 1..Len(logger.handlers) : logger.handlers[i].call = log_call.n
        /\ Len(logger.handlers) = IF log_call.log_file \in {"None", ""} THEN 1 ELSE 2
        /\ logger.handlers[1].kind = "StreamHandler"
        /\ Len(logger.handlers) = 2 =>
              /\ logger.handlers[2].kind = "FileHandler"
              /\ logger.handlers[2].target = log_call.log_file
        /\ logger.level = IF log_call.level = "default" THEN "INFO" ELSE log_call.level

\* C21's case: a call with a log file and a level, then a call with
\* neither.
C21_Witness ==
    /\ pc = "logging_set_up"
    /\ log_call = [n |-> 2, level |-> "default", log_file |-> "None"]
    /\ logger = [handlers |-> <<ConsoleHandler(2)>>, level |-> "INFO"]

C23_OnlyTaxonomyErrors ==
    (/\ LoadJustEnded
     /\ data_dir.exists
     /\ \A f \in FileNames : DocAt(f).kind # "unreadable") =>
        \/ pc = "loaded" /\ exc = NoExc
        \/ pc = "load_raised" /\ exc.type \in {"ConfigError", "DataError"}

=============================================================================
